---- MODULE Spec2Model ----
(***************************************************************************)
(* Model of the err-with crate (src/lib.rs): the trait ErrWith and its     *)
(* implementation for Result<T, E>.                                        *)
(*                                                                         *)
(* Rust values are encoded as tagged tuples so that values of different    *)
(* Rust types are comparable and never confused:                           *)
(*   ()            <<"unit">>                                              *)
(*   42_i32        <<"i32", 42>>                                           *)
(*   "x"           <<"str", "x">>                                          *)
(*   RequestId(7)  <<"request_id", 7>>                                     *)
(*   (a, b)        <<"pair", a, b>>                                        *)
(*   Ok(v)         <<"Ok", v>>                                             *)
(*   Err(e)        <<"Err", e>>                                            *)
(*                                                                         *)
(* A caller evaluates the fluent expression                                *)
(*   producer().err_with(w1).err_with(w2)...                               *)
(* one call at a time.  Each caller has the outcome its producer returned  *)
(* (orig), the contexts it has passed so far (ctxs), and the frame of the  *)
(* current err_with call: the parameters self and with, and the value      *)
(* returned (ret).                                                         *)
(***************************************************************************)
EXTENDS Integers, Sequences, FiniteSets, TLC

VARIABLES pc, orig, ctxs, self, with, ret

vars == <<pc, orig, ctxs, self, with, ret>>

\* Number of concurrent callers in the concurrent specification.
NProcs == 2

\* Longest chain of err_with calls a caller applies to one outcome.
MaxDepth == 2

----------------------------------------------------------------------------
\* Values.

Unit == <<"unit">>

I32(n) == <<"i32", n>>

Str(s) == <<"str", s>>

RequestId(n) == <<"request_id", n>>

Pair(a, b) == <<"pair", a, b>>

Ok(v) == <<"Ok", v>>

Err(e) == <<"Err", e>>

IsOk(r) == r[1] = "Ok"

IsErr(r) == r[1] = "Err"

\* The payload of an Ok or an Err.
Payload(r) == r[2]

IsPair(x) == x[1] = "pair"

Fst(x) == x[2]

Snd(x) == x[3]

\* No value at all: the content of a frame slot that holds nothing.
None == <<"none">>

----------------------------------------------------------------------------
\* The transformation.

\* Variants of err_with, each with one slip.

\* The context is attached on the success arm as well.
err_with_ok_tagged(slf, wth) ==
  CASE IsOk(slf)  -> Ok(Pair(Payload(slf), wth))
    [] IsErr(slf) -> Err(Pair(Payload(slf), wth))

\* The pair is built in the order (with, error).
err_with_swapped(slf, wth) ==
  CASE IsOk(slf)  -> Ok(Payload(slf))
    [] IsErr(slf) -> Err(Pair(wth, Payload(slf)))

\* A failure that already carries a context has that context replaced.
err_with_overwrite(slf, wth) ==
  CASE IsOk(slf) -> Ok(Payload(slf))
    [] IsErr(slf) /\ IsPair(Payload(slf)) ->
         Err(Pair(Fst(Payload(slf)), wth))
    [] IsErr(slf) /\ ~IsPair(Payload(slf)) ->
         Err(Pair(Payload(slf), wth))

\* A context that is itself a failure turns the outcome into a failure.
err_with_ctx_poison(slf, wth) ==
  CASE IsOk(slf) /\ IsErr(wth)  -> Err(Pair(Payload(slf), wth))
    [] IsOk(slf) /\ ~IsErr(wth) -> Ok(Payload(slf))
    [] IsErr(slf)               -> Err(Pair(Payload(slf), wth))

\* The context is dropped: the pair carries the unit value in its place.
err_with_ctx_dropped(slf, wth) ==
  CASE IsOk(slf)  -> Ok(Payload(slf))
    [] IsErr(slf) -> Err(Pair(Payload(slf), Unit))

\* The context is kept only when it has the type of the failure.
err_with_same_type(slf, wth) ==
  CASE IsOk(slf) -> Ok(Payload(slf))
    [] IsErr(slf) /\ Payload(slf)[1] = wth[1] ->
         Err(Pair(Payload(slf), wth))
    [] IsErr(slf) /\ Payload(slf)[1] # wth[1] ->
         Err(Pair(Payload(slf), Unit))

\* The success arm rebuilds the payload as the unit value.
err_with_ok_rebuilt(slf, wth) ==
  CASE IsOk(slf)  -> Ok(Unit)
    [] IsErr(slf) -> Err(Pair(Payload(slf), wth))

\* fn err_with<W>(self, with: W) -> Result<T, (E, W)>
err_with(slf, wth) ==
  CASE IsOk(slf)  -> Ok(Payload(slf))
    [] IsErr(slf) -> Err(Pair(Payload(slf), wth))

----------------------------------------------------------------------------
\* Inputs.

\* Outcomes a producer hands to a caller of the sequential specification:
\* successes and failures of several payload types, the unit payload, and a
\* failure whose payload is itself a failure.
Outcomes ==
  { Ok(I32(42)), Ok(Unit),
    Err(Str("disk error")), Err(I32(404)), Err(Str("x")), Err(Unit),
    Err(Err(Str("x"))) }

\* Contexts a caller of the sequential specification passes: strings, a
\* struct, the unit value, and a context that is itself a failure.
Contexts ==
  { Str("ignored"), Str("/tmp/a.txt"), RequestId(7), Str("step1"),
    Str("step2"), Unit, Err(Str("x")) }

\* Outcomes and contexts of the callers of the concurrent specification.
ConcOutcomes == { Ok(I32(42)), Err(Str("x")) }

ConcContexts == { Str("step1"), Str("step2") }

\* The callers of the concurrent specification.
Procs == 1 .. NProcs

\* The callers of the running specification.
Callers == DOMAIN pc

----------------------------------------------------------------------------
\* State.

\* No call has been made: every caller is idle and holds no frame.
InitFor(P) ==
  /\ pc   = [p \in P |-> "idle"]
  /\ orig = [p \in P |-> None]
  /\ ctxs = [p \in P |-> <<>>]
  /\ self = [p \in P |-> None]
  /\ with = [p \in P |-> None]
  /\ ret  = [p \in P |-> None]

Init == InitFor(Procs)

InitSeq == InitFor({1})

\* Caller p takes the outcome r of its producer and calls r.err_with(w):
\* the parameters self and with are bound to r and w.
Call(p, r, w) ==
  /\ pc[p] = "idle"
  /\ pc'   = [pc EXCEPT ![p] = "match"]
  /\ orig' = [orig EXCEPT ![p] = r]
  /\ ctxs' = [ctxs EXCEPT ![p] = <<w>>]
  /\ self' = [self EXCEPT ![p] = r]
  /\ with' = [with EXCEPT ![p] = w]
  /\ ret'  = [ret EXCEPT ![p] = None]

\* Variants of Match, each with one slip.

\* The context is read from a slot shared by all callers, which holds the
\* context of the highest-numbered caller that has a frame.
Match_shared(p) ==
  LET q == CHOOSE q \in Callers :
             /\ pc[q] # "idle"
             /\ \A r \in Callers : pc[r] # "idle" => r <= q
  IN /\ pc[p] = "match"
     /\ ret' = [ret EXCEPT ![p] = err_with(self[p], with[q])]
     /\ pc'  = [pc EXCEPT ![p] = "done"]
     /\ UNCHANGED <<orig, ctxs, self, with>>

\* The value is returned through a slot shared by all callers: every caller
\* that holds a returned value sees the latest one.
Match_broadcast(p) ==
  /\ pc[p] = "match"
  /\ ret' = [q \in Callers |->
               IF q = p \/ pc[q] = "done"
               THEN err_with(self[p], with[p]) ELSE ret[q]]
  /\ pc'  = [pc EXCEPT ![p] = "done"]
  /\ UNCHANGED <<orig, ctxs, self, with>>

\* The failure arm does not return: the call is tried again.
Match_retry(p) ==
  /\ pc[p] = "match"
  /\ IF IsOk(self[p])
     THEN /\ ret' = [ret EXCEPT ![p] = err_with(self[p], with[p])]
          /\ pc'  = [pc EXCEPT ![p] = "done"]
     ELSE UNCHANGED <<ret, pc>>
  /\ UNCHANGED <<orig, ctxs, self, with>>

\* The body of err_with in caller p's frame: the match on self, and the
\* return of the value of the arm taken.
Match(p) ==
  /\ pc[p] = "match"
  /\ ret' = [ret EXCEPT ![p] = err_with(self[p], with[p])]
  /\ pc'  = [pc EXCEPT ![p] = "done"]
  /\ UNCHANGED <<orig, ctxs, self, with>>

\* Caller p calls err_with(w) on the value the previous call returned.
Chain(p, w) ==
  /\ pc[p] = "done"
  /\ Len(ctxs[p]) < MaxDepth
  /\ pc'   = [pc EXCEPT ![p] = "match"]
  /\ ctxs' = [ctxs EXCEPT ![p] = Append(@, w)]
  /\ self' = [self EXCEPT ![p] = ret[p]]
  /\ with' = [with EXCEPT ![p] = w]
  /\ ret'  = [ret EXCEPT ![p] = None]
  /\ UNCHANGED orig

\* Caller p takes the returned value away; the expression is finished.
Consume(p) ==
  /\ pc[p] = "done"
  /\ pc'   = [pc EXCEPT ![p] = "idle"]
  /\ orig' = [orig EXCEPT ![p] = None]
  /\ ctxs' = [ctxs EXCEPT ![p] = <<>>]
  /\ self' = [self EXCEPT ![p] = None]
  /\ with' = [with EXCEPT ![p] = None]
  /\ ret'  = [ret EXCEPT ![p] = None]

\* Concurrent callers.
Next ==
  \/ \E p \in Callers, r \in ConcOutcomes, w \in ConcContexts : Call(p, r, w)
  \/ \E p \in Callers : Match(p)
  \/ \E p \in Callers, w \in ConcContexts : Chain(p, w)
  \/ \E p \in Callers : Consume(p)

Spec == Init /\ [][Next]_vars

\* Every call that was made is scheduled: the body of err_with runs.
SpecLive == Spec /\ \A p \in Procs : WF_vars(Match(p))

\* One caller, the full input sets.
NextSeq ==
  \/ \E p \in Callers, r \in Outcomes, w \in Contexts : Call(p, r, w)
  \/ \E p \in Callers : Match(p)
  \/ \E p \in Callers, w \in Contexts : Chain(p, w)
  \/ \E p \in Callers : Consume(p)

SpecSeq == InitSeq /\ [][NextSeq]_vars

----------------------------------------------------------------------------
\* Properties of the value returned, checked under SpecSeq.

\* Inputs of a first or a second call of a chain.
ChainInputs ==
  Outcomes \cup { err_with(r, w) : r \in Outcomes, w \in Contexts }

\* C1: a call on Ok(v) returns Ok(v), the same payload in a success, and the
\* value returned is the same whatever context is passed; this covers
\* Ok(()) with context ().
OkPassesThrough ==
  \A p \in Callers :
    pc[p] = "done" /\ IsOk(self[p]) =>
      /\ IsOk(ret[p])
      /\ Payload(ret[p]) = Payload(self[p])
      /\ ret[p] = self[p]
      /\ \A w \in Contexts : err_with(self[p], w) = ret[p]

OkUnitReturned ==
  \E p \in Callers :
    /\ pc[p] = "done"
    /\ self[p] = <<"Ok", <<"unit">>>>
    /\ with[p] = <<"unit">>
    /\ ret[p] = <<"Ok", <<"unit">>>>

\* C2: a call on Err(e) with context w returns Err((e, w)): a failure whose
\* payload is a pair, e first and w second.
ErrPairsWithContext ==
  \A p \in Callers :
    pc[p] = "done" /\ IsErr(self[p]) =>
      /\ IsErr(ret[p])
      /\ IsPair(Payload(ret[p]))
      /\ Len(Payload(ret[p])) = 3
      /\ Fst(Payload(ret[p])) = Payload(self[p])
      /\ Snd(Payload(ret[p])) = with[p]
      /\ ret[p] = <<"Err", <<"pair", self[p][2], with[p]>>>>

ErrPairReturned ==
  \E p \in Callers :
    /\ pc[p] = "done"
    /\ self[p] = <<"Err", <<"i32", 404>>>>
    /\ with[p] = <<"str", "/tmp/a.txt">>
    /\ ret[p] = <<"Err", <<"pair", <<"i32", 404>>, <<"str", "/tmp/a.txt">>>>>>

\* C3: two calls in a chain nest: on Err(e) with contexts w1 then w2 the
\* chain returns Err(((e, w1), w2)), both contexts kept, in the order they
\* were passed; on Ok(v) the chain returns Ok(v).
ChainNests ==
  \A p \in Callers :
    pc[p] = "done" /\ Len(ctxs[p]) = 2 =>
      /\ IsErr(orig[p]) =>
           ret[p] = <<"Err", <<"pair", <<"pair", orig[p][2], ctxs[p][1]>>,
                               ctxs[p][2]>>>>
      /\ IsOk(orig[p]) => ret[p] = orig[p]

ChainOfTwoReturned ==
  \E p \in Callers :
    /\ pc[p] = "done"
    /\ Len(ctxs[p]) = 2
    /\ IsErr(orig[p])
    /\ ctxs[p][1] # ctxs[p][2]
    /\ Fst(Fst(Payload(ret[p]))) = Payload(orig[p])

\* C4: the value returned is a failure exactly when self is a failure, and
\* a success exactly when self is a success, also when the failure or the
\* context is itself a failure.
VariantPreserved ==
  \A p \in Callers :
    pc[p] = "done" =>
      /\ IsErr(ret[p]) <=> IsErr(self[p])
      /\ IsOk(ret[p]) <=> IsOk(self[p])
      /\ IsOk(ret[p]) # IsErr(ret[p])

NestedFailureReturned ==
  \E p \in Callers :
    /\ pc[p] = "done"
    /\ IsErr(self[p])
    /\ IsErr(Payload(self[p]))
    /\ IsErr(with[p])
    /\ IsErr(ret[p])

\* C5: on a failure, the failure and the context are recovered from the
\* value returned as the first and the second component of its pair, and
\* no other failure and context give the same value.
FailureRecoverable ==
  \A p \in Callers :
    pc[p] = "done" /\ IsErr(self[p]) =>
      /\ IsErr(ret[p]) /\ IsPair(Payload(ret[p]))
      /\ Err(Fst(Payload(ret[p]))) = self[p]
      /\ Snd(Payload(ret[p])) = with[p]
      /\ \A r \in ChainInputs, w \in Contexts :
           IsErr(r) /\ err_with(r, w) = ret[p] => r = self[p] /\ w = with[p]

FailureWithContextReturned ==
  \E p \in Callers :
    /\ pc[p] = "done"
    /\ IsErr(self[p])
    /\ with[p] # Unit
    /\ Snd(Payload(ret[p])) = with[p]
    /\ \E r \in ChainInputs :
         /\ IsErr(r) /\ r # self[p]
         /\ Fst(Payload(err_with(r, with[p]))) # Payload(self[p])

\* C9: the scenarios: Ok(42) with "ignored" returns Ok(42); Err("disk
\* error") with "/tmp/a.txt" returns Err(("disk error", "/tmp/a.txt"));
\* Err(404) with RequestId(7) returns Err((404, RequestId(7))); Err("x")
\* with "step1" then "step2" returns Err((("x", "step1"), "step2")).
ScenariosHold ==
  \A p \in Callers :
    pc[p] = "done" =>
      /\ ( /\ orig[p] = <<"Ok", <<"i32", 42>>>>
           /\ ctxs[p] = << <<"str", "ignored">> >> )
         => ret[p] = <<"Ok", <<"i32", 42>>>>
      /\ ( /\ orig[p] = <<"Err", <<"str", "disk error">>>>
           /\ ctxs[p] = << <<"str", "/tmp/a.txt">> >> )
         => ret[p] = <<"Err", <<"pair", <<"str", "disk error">>,
                                        <<"str", "/tmp/a.txt">>>>>>
      /\ ( /\ orig[p] = <<"Err", <<"i32", 404>>>>
           /\ ctxs[p] = << <<"request_id", 7>> >> )
         => ret[p] = <<"Err", <<"pair", <<"i32", 404>>,
                                        <<"request_id", 7>>>>>>
      /\ ( /\ orig[p] = <<"Err", <<"str", "x">>>>
           /\ ctxs[p] = << <<"str", "step1">>, <<"str", "step2">> >> )
         => ret[p] = <<"Err", <<"pair", <<"pair", <<"str", "x">>,
                                                  <<"str", "step1">>>>,
                                        <<"str", "step2">>>>>>

ScenarioMixedTypesReturned ==
  \E p \in Callers :
    /\ pc[p] = "done"
    /\ orig[p] = <<"Err", <<"i32", 404>>>>
    /\ ctxs[p] = << <<"request_id", 7>> >>
    /\ Payload(ret[p])[2][1] # Payload(ret[p])[3][1]

\* Result::map_err of the Rust core library, the reference of C10:
\*   match self { Ok(t) => Ok(t), Err(e) => Err(op(e)) }
map_err(slf, op(_)) ==
  IF slf[1] = "Err" THEN <<"Err", op(slf[2])>> ELSE slf

\* C10: the value returned is the one self.map_err(|e| (e, with)) gives:
\* the failure side mapped by e -> (e, with), the success side untouched.
AgreesWithMapErr ==
  \A p \in Callers :
    pc[p] = "done" =>
      ret[p] = map_err(self[p], LAMBDA e : <<"pair", e, with[p]>>)

MapErrBothSidesReturned ==
  \E p \in Callers :
    /\ pc[p] = "done"
    /\ Len(ctxs[p]) = 2
    /\ IsOk(orig[p])
    /\ ret[p] = map_err(map_err(orig[p], LAMBDA e : <<"pair", e, ctxs[p][1]>>),
                        LAMBDA e : <<"pair", e, ctxs[p][2]>>)
    /\ \E r \in Outcomes : map_err(r, LAMBDA e : <<"pair", e, with[p]>>) # r

----------------------------------------------------------------------------
\* Properties of the calls of concurrent callers.

\* The frame of caller p and the state of its chain.
Frame(p) == <<pc[p], orig[p], ctxs[p], self[p], with[p], ret[p]>>

\* Two calls with equal self and equal with have returned equal values.
Deterministic ==
  \A p, q \in Callers :
    /\ pc[p] = "done" /\ pc[q] = "done"
    /\ self[p] = self[q] /\ with[p] = with[q]
    => ret[p] = ret[q]

\* The step in which a call returns writes the value returned and nothing
\* else: the arguments and all state outside the call stay as they were.
ReturnWritesResultOnly ==
  \A p \in Callers :
    pc[p] = "match" /\ pc'[p] = "done" =>
      /\ self' = self /\ with' = with
      /\ orig' = orig /\ ctxs' = ctxs
      /\ \A q \in Callers \ {p} : Frame(q)' = Frame(q)

\* C7 (checked under Spec): err_with is a function of self and with alone:
\* calls with equal arguments return equal values whatever was called
\* before, and a call changes nothing but the value it returns.
PureFunction == []Deterministic /\ [][ReturnWritesResultOnly]_vars

SameArgumentsAfterDifferentHistories ==
  \E p, q \in Callers :
    /\ p # q
    /\ pc[p] = "done" /\ pc[q] = "done"
    /\ self[p] = self[q] /\ with[p] = with[q]
    /\ ctxs[p] # ctxs[q]
    /\ ret[p] = ret[q]

\* Every call that has returned holds the value it returns when run alone.
ReturnsAsAlone ==
  \A p \in Callers :
    pc[p] = "done" => ret[p] = err_with(self[p], with[p])

\* A step of one caller leaves the frame of every other caller as it was.
NoInterference ==
  \A p \in Callers :
    Frame(p)' # Frame(p) =>
      \A q \in Callers \ {p} : Frame(q)' = Frame(q)

\* C8 (checked under Spec): under every interleaving of the steps of the
\* concurrent callers, each call returns the value it returns when run
\* alone, and no step of one caller changes the arguments or the value
\* returned of another.
ConcurrentCallsIsolated == []ReturnsAsAlone /\ [][NoInterference]_vars

CallsOverlap ==
  \E p, q \in Callers :
    /\ p # q
    /\ pc[p] = "done" /\ pc[q] = "match"
    /\ IsErr(self[p]) /\ IsErr(self[q])
    /\ with[p] # with[q]
    /\ Snd(Payload(ret[p])) = with[p]

\* A call that leaves the match has returned a value.
ReturnsInOneStep ==
  \A p \in Callers :
    pc[p] = "match" /\ pc'[p] # "match" =>
      /\ pc'[p] = "done"
      /\ IsOk(ret'[p]) \/ IsErr(ret'[p])

\* C6 (checked under SpecLive): every call that was made returns, and it
\* returns in the one step that takes an arm of the match.
EveryCallReturns ==
  /\ \A p \in Procs : (pc[p] = "match") ~> (pc[p] = "done")
  /\ [][ReturnsInOneStep]_vars

AllCallsReturned ==
  /\ \A p \in Callers : pc[p] = "done" /\ Len(ctxs[p]) = MaxDepth
  /\ \E p \in Callers : IsErr(ret[p])
  /\ \E p \in Callers : IsOk(ret[p])

====
